---- MODULE Spec2Model ----
(***************************************************************************)
(* Sender side of the reliable-delivery protocol over UDP: the fixed       *)
(* sliding-window sender (transmit_file) and the stop-and-wait sender      *)
(* (send_one_packet / send_file).                                          *)
(*                                                                         *)
(* Time is counted in units of 0.1 s (the sliding-window socket timeout).  *)
(* A timestamp is kept as its age, now - timestamp, which is what every    *)
(* comparison and every delay sample of the code reads; ages stop growing  *)
(* at MaxAge, above every threshold they are compared with, and the age of *)
(* a timestamp the code never reads again (those of an acknowledged        *)
(* packet, those of the data phase once it is over) is left as it was at   *)
(* its last use.  Sizes are scaled: DATA_SIZE and MESSAGE_SIZE are 2       *)
(* bytes, WINDOW is 2 packets.                                             *)
(***************************************************************************)
EXTENDS Integers, Sequences, FiniteSets, TLC

\* ------------------------------------------------------------ constants
SEQ_SIZE == 4
DATA_SIZE == 2
WINDOW == 2
RETRANSMIT_TIME == 5
SOCK_TIMEOUT == 1
CHECK_INTERVAL == 1
MESSAGE_SIZE == 2
ACK_TIMEOUT == 5

\* ------------------------------------------------------------ bounds
MaxBytes == 5
MaxAge == 6
MaxPairBytes == 3
MaxLiveBytes == 3
MaxSegBytes == 6
MaxChunk == 4
MaxRetryBytes == 5

None == 0 - 1

Min(a, b) == IF a < b THEN a ELSE b

\* ------------------------------------------------------------ frame codec
\* int.to_bytes(n, 4, signed=True, byteorder='big')
ToBytes(n) ==
    << (n \div 16777216) % 256, (n \div 65536) % 256, (n \div 256) % 256, n % 256 >>

RECURSIVE FoldBytes(_, _)
FoldBytes(acc, bs) ==
    IF bs = << >> THEN acc ELSE FoldBytes(acc * 256 + Head(bs), Tail(bs))

\* int.from_bytes(bs, signed=True, byteorder='big'), for 0 to 4 bytes
FromBytes(bs) ==
    IF bs = << >> THEN 0
    ELSE FoldBytes(IF Head(bs) >= 128 THEN Head(bs) - 256 ELSE Head(bs), Tail(bs))

\* response[:SEQ_SIZE] and response[SEQ_SIZE:]
HeaderOf(response) == SubSeq(response, 1, Min(SEQ_SIZE, Len(response)))
BodyOf(response) == SubSeq(response, SEQ_SIZE + 1, Len(response))

\* bytes.decode(): the text, or UnicodeDecodeError.  Every byte below 128 is
\* one ASCII character; of the bytes above, the frames here carry only 255,
\* which no UTF-8 text contains.
Decodable(body) == \A i \in 1..Len(body) : body[i] < 128

ACK_TEXT == << 97, 99, 107 >>
FIN_TEXT == << 102, 105, 110 >>
FINACK_TEXT == << 61, 61, 70, 73, 78, 65, 67, 75, 61, 61 >>

AckFrame(a) == ToBytes(a) \o ACK_TEXT
FinFrame(a) == ToBytes(a) \o FIN_TEXT
FINACK == ToBytes(0) \o FINACK_TEXT
FinalPacket(total) == ToBytes(total)

FinalAckAtLeast(ack_msg, ack_seq, final_seq) == ack_msg = ACK_TEXT /\ ack_seq >= final_seq

\* line 182 (and line 178 of the stop-and-wait sender): the ACK of the terminal frame
FinalAckMatches(ack_msg, ack_seq, final_seq) == ack_msg = ACK_TEXT /\ ack_seq = final_seq

\* ------------------------------------------------------------ segmenter
\* the file read into memory: a fixed byte pattern of each length
FileOf(n) == [i \in 1..n |-> 1 + (i % 3)]

ChunkWide(file, position, size) ==
    SubSeq(file, position + 1, Min(position + size + 1, Len(file)))

\* line 50 (line 143 of the stop-and-wait sender): file[position:position + size]
Chunk(file, position, size) ==
    SubSeq(file, position + 1, Min(position + size, Len(file)))

RECURSIVE BuildPackets(_, _)
BuildPackets(file, position) ==
    IF position < Len(file)
    THEN LET data == Chunk(file, position, DATA_SIZE)
         IN << [sequence |-> position,
                raw |-> ToBytes(position) \o data,
                length |-> Len(data),
                is_acked |-> FALSE,
                first_sent |-> None,
                recent_sent |-> None] >>
            \o BuildPackets(file, position + Len(data))
    ELSE << >>

\* ------------------------------------------------------------ window engine
RightEdgeWide(edge, w, n) == Min(edge + w + 1, n)

\* lines 84, 136, 153: right_edge = min(left_edge + WINDOW, num_packets)
RightEdge(edge, w, n) == Min(edge + w, n)

AllAcked(pl) == \A i \in 1..Len(pl) : pl[i].is_acked

\* lines 85-88 and 137-143: send the packets idx in [from, to) that are not
\* acknowledged, stamping first_sent once and recent_sent always
SendRange(pl, from, to) ==
    [i \in 1..Len(pl) |->
        IF i - 1 >= from /\ i - 1 < to /\ ~pl[i].is_acked
        THEN [pl[i] EXCEPT !.first_sent = IF pl[i].first_sent = None THEN 0
                                           ELSE pl[i].first_sent,
                           !.recent_sent = 0]
        ELSE pl[i]]

RECURSIVE RawRange(_, _, _)
RawRange(pl, from, to) ==
    IF from >= to THEN << >>
    ELSE (IF ~pl[from + 1].is_acked THEN << pl[from + 1].raw >> ELSE << >>)
         \o RawRange(pl, from + 1, to)

\* lines 84-89: the initial burst stamps both timestamps of every packet sent
InitialBurst(pl, w) ==
    [i \in 1..Len(pl) |->
        IF i - 1 < RightEdge(0, w, Len(pl))
        THEN [pl[i] EXCEPT !.first_sent = 0, !.recent_sent = 0]
        ELSE pl[i]]

RECURSIVE BurstRawShort(_, _, _)
BurstRawShort(pl, from, to) ==
    IF from + 1 >= to THEN << >>
    ELSE << pl[from + 1].raw >> \o BurstRawShort(pl, from + 1, to)

\* lines 85-86: the frames of the initial burst
RECURSIVE BurstRaw(_, _, _)
BurstRaw(pl, from, to) ==
    IF from >= to THEN << >> ELSE << pl[from + 1].raw >> \o BurstRaw(pl, from + 1, to)

MarkAckedExact(pl, ack_seq) ==
    [i \in 1..Len(pl) |->
        IF ack_seq = pl[i].sequence + pl[i].length /\ ~pl[i].is_acked
        THEN [pl[i] EXCEPT !.is_acked = TRUE]
        ELSE pl[i]]

MarkAckedEarly(pl, ack_seq) ==
    [i \in 1..Len(pl) |->
        IF ack_seq + 1 >= pl[i].sequence + pl[i].length /\ ~pl[i].is_acked
        THEN [pl[i] EXCEPT !.is_acked = TRUE]
        ELSE pl[i]]

\* lines 111-117: cumulative acknowledgment
MarkAcked(pl, ack_seq) ==
    [i \in 1..Len(pl) |->
        IF ack_seq >= pl[i].sequence + pl[i].length /\ ~pl[i].is_acked
        THEN [pl[i] EXCEPT !.is_acked = TRUE]
        ELSE pl[i]]

RECURSIVE NewDelaysRepeat(_, _, _)
NewDelaysRepeat(pl, ack_seq, i) ==
    IF i > Len(pl) THEN << >>
    ELSE (IF ack_seq >= pl[i].sequence + pl[i].length /\ pl[i].first_sent # None
          THEN << pl[i].first_sent >> ELSE << >>)
         \o NewDelaysRepeat(pl, ack_seq, i + 1)

\* lines 119-122: one delay sample per newly acknowledged packet
RECURSIVE NewDelays(_, _, _)
NewDelays(pl, ack_seq, i) ==
    IF i > Len(pl) THEN << >>
    ELSE (IF ack_seq >= pl[i].sequence + pl[i].length /\ ~pl[i].is_acked
             /\ pl[i].first_sent # None
          THEN << pl[i].first_sent >> ELSE << >>)
         \o NewDelays(pl, ack_seq, i + 1)

SlideWindowOne(pl, edge) ==
    IF edge < Len(pl) /\ pl[edge + 1].is_acked THEN edge + 1 ELSE edge

\* lines 125-127
RECURSIVE SlideWindow(_, _)
SlideWindow(pl, edge) ==
    IF edge < Len(pl) /\ pl[edge + 1].is_acked THEN SlideWindow(pl, edge + 1) ELSE edge

\* lines 109-144: the whole handling of one ACK
HandleAck(pl, edge, next, dl, w, ack_seq) ==
    LET marked == MarkAcked(pl, ack_seq)
        new_edge == SlideWindow(marked, edge)
        from == IF next < new_edge THEN new_edge ELSE next
        right_edge == RightEdge(new_edge, w, Len(pl))
    IN  IF new_edge > edge
        THEN [packet_list |-> SendRange(marked, from, right_edge),
              left_edge |-> new_edge,
              send_next |-> right_edge,
              delays |-> dl \o NewDelays(pl, ack_seq, 1),
              out |-> RawRange(marked, from, right_edge)]
        ELSE [packet_list |-> marked,
              left_edge |-> new_edge,
              send_next |-> next,
              delays |-> dl \o NewDelays(pl, ack_seq, 1),
              out |-> << >>]

TimedOutNever(pkt) == FALSE

\* line 158-159: the packet is due for a resend
TimedOut(pkt) ==
    ~pkt.is_acked /\ pkt.recent_sent # None /\ pkt.recent_sent > RETRANSMIT_TIME

SweepRangeRestamp(pl, edge, w) ==
    [i \in 1..Len(pl) |->
        IF i - 1 >= edge /\ i - 1 < RightEdge(edge, w, Len(pl)) /\ TimedOut(pl[i])
        THEN [pl[i] EXCEPT !.first_sent = 0, !.recent_sent = 0]
        ELSE pl[i]]

SweepRangeNoRefresh(pl, edge, w) == pl

\* lines 153-162: the sweep over the window
SweepRange(pl, edge, w) ==
    [i \in 1..Len(pl) |->
        IF i - 1 >= edge /\ i - 1 < RightEdge(edge, w, Len(pl)) /\ TimedOut(pl[i])
        THEN [pl[i] EXCEPT !.recent_sent = 0]
        ELSE pl[i]]

RECURSIVE SweepRaw(_, _, _)
SweepRaw(pl, from, to) ==
    IF from >= to THEN << >>
    ELSE (IF TimedOut(pl[from + 1]) THEN << pl[from + 1].raw >> ELSE << >>)
         \o SweepRaw(pl, from + 1, to)

Stale(pkt) == pkt.recent_sent # None /\ pkt.recent_sent > RETRANSMIT_TIME

RECURSIVE StaleRaw(_, _, _)
StaleRaw(pl, from, to) ==
    IF from >= to THEN << >>
    ELSE (IF Stale(pl[from + 1]) THEN << pl[from + 1].raw >> ELSE << >>)
         \o StaleRaw(pl, from + 1, to)

SweepAll(pl, edge, w, check) ==
    IF check > CHECK_INTERVAL
    THEN [packet_list |-> [i \in 1..Len(pl) |->
                              IF Stale(pl[i]) THEN [pl[i] EXCEPT !.recent_sent = 0]
                              ELSE pl[i]],
          last_check |-> 0,
          out |-> StaleRaw(pl, 0, Len(pl))]
    ELSE [packet_list |-> pl, last_check |-> check, out |-> << >>]

\* lines 151-164: sweep when the last one is more than CHECK_INTERVAL ago
Sweep(pl, edge, w, check) ==
    IF check > CHECK_INTERVAL
    THEN [packet_list |-> SweepRange(pl, edge, w),
          last_check |-> 0,
          out |-> SweepRaw(pl, edge, RightEdge(edge, w, Len(pl)))]
    ELSE [packet_list |-> pl, last_check |-> check, out |-> << >>]

\* ------------------------------------------------------------ state
VARIABLES
    contents,      \* the file read into memory
    window,        \* the configured window size
    pcW,           \* sliding window: where transmit_file stands
    packet_list, left_edge, send_next, delays, last_check,
    waitedW,       \* time the pending recvfrom of transmit_file has waited
    sentW,         \* frames given to sock.sendto by the last step
    rxW,           \* what recvfrom returned to transmit_file in the last step
    excW,          \* the exception that ended transmit_file, if any
    txW,           \* per packet: age of its first and of its last transmission
    max_ack,       \* largest ACK offset handled in the data phase
    pcS,           \* stop and wait: where send_file stands
    current_position, packet_count, all_delays, start_time,
    waitedS,       \* time the pending recvfrom of send_file has waited
    sentS,         \* frames given to sock.sendto by the last step
    rxS,           \* what recvfrom returned to send_file in the last step
    excS,          \* the exception that ended send_file, if any
    txS,           \* age of the first transmission of the current packet
    toPeer,        \* frames in flight to the receiver
    toSender,      \* frames in flight to the sender
    expected,      \* the receiver's next expected byte
    pcSeg,         \* which sender's segmentation loop is running, if any
    chunk,         \* the chunk size of that loop
    seg_position,  \* position of the loop of lines 48-66
    segments       \* what the loop of send_file has handed to send_one_packet

varsW == << window, pcW, packet_list, left_edge, send_next, delays, last_check,
            waitedW, sentW, rxW, excW, txW, max_ack >>
varsS == << pcS, current_position, packet_count, all_delays, start_time,
            waitedS, sentS, rxS, excS, txS >>
varsNet == << toPeer, toSender, expected >>
varsSeg == << pcSeg, chunk, seg_position, segments >>
vars == << contents, varsW, varsS, varsNet, varsSeg >>

total_bytes == Len(contents)
num_packets == Len(packet_list)

\* one 0.1 s later
Older(t) == IF t = None THEN None ELSE Min(t + 1, MaxAge)

\* the frames the socket can hand to the sender
AckSeqs == (0 - 1)..(total_bytes + 1)
Malformed == { ToBytes(0) \o << 255 >>, << 0, 0 >> }
Frames ==
    { AckFrame(a) : a \in AckSeqs }
    \cup { FinFrame(total_bytes), ToBytes(0) \o << 97 >>, << >> }
    \cup Malformed

IsSent(out, raw) == \E k \in 1..Len(out) : out[k] = raw

\* the record of real transmissions, from the frames of one step
Transmit(tx, pl, out) ==
    [i \in 1..Len(pl) |->
        IF IsSent(out, pl[i].raw)
        THEN [first |-> IF tx[i].first = None THEN 0 ELSE tx[i].first, last |-> 0]
        ELSE tx[i]]

InitW(w) ==
    /\ window = w
    /\ packet_list = BuildPackets(contents, 0)
    /\ left_edge = 0
    /\ send_next = 0
    /\ delays = << >>
    /\ last_check = None
    /\ waitedW = 0
    /\ sentW = << >>
    /\ rxW = << >>
    /\ excW = "none"
    /\ txW = [i \in 1..Len(BuildPackets(contents, 0)) |-> [first |-> None, last |-> None]]
    /\ max_ack = None

\* lines 166-174: the data loop is left, the terminal frame goes out
EnterTeardown(done) == IF done THEN << FinalPacket(total_bytes) >> ELSE << >>

\* lines 76-97: the initial burst, then the first test of the loop
WStart ==
    /\ pcW = "start"
    /\ LET right_edge == RightEdge(left_edge, window, num_packets)
           out == BurstRaw(packet_list, send_next, right_edge)
           pl == InitialBurst(packet_list, window)
       IN  /\ packet_list' = pl
           /\ send_next' = right_edge
           /\ last_check' = 0
           /\ sentW' = out \o EnterTeardown(AllAcked(pl))
           /\ txW' = Transmit(txW, pl, out)
           /\ pcW' = IF AllAcked(pl) THEN "final_ack" ELSE "data"
    /\ waitedW' = 0
    /\ UNCHANGED << contents, window, left_edge, delays, rxW, excW, max_ack >>

\* lines 150-164 and the loop test of line 97, after the receive attempt
WFinishIteration(pl, edge, next, dl, out) ==
    LET s == Sweep(pl, edge, window, last_check)
        done == AllAcked(s.packet_list)
    IN  /\ packet_list' = s.packet_list
        /\ left_edge' = edge
        /\ send_next' = next
        /\ delays' = dl
        /\ last_check' = s.last_check
        /\ sentW' = out \o s.out \o EnterTeardown(done)
        /\ txW' = Transmit(txW, pl, out \o s.out)
        /\ pcW' = IF done THEN "final_ack" ELSE "data"
        /\ waitedW' = 0

\* line 106, 179, 184: decode() raises, nothing catches it
WCrash ==
    /\ pcW' = "crashed"
    /\ excW' = "UnicodeDecodeError"
    /\ sentW' = << >>
    /\ UNCHANGED << packet_list, left_edge, send_next, delays, last_check, waitedW,
                    txW, max_ack >>

\* lines 97-164: one iteration of the data loop in which a frame arrives
WRecvData(response) ==
    /\ pcW = "data"
    /\ rxW' = << "frame", response >>
    /\ UNCHANGED << contents, window >>
    /\ LET ack_seq == FromBytes(HeaderOf(response))
           body == BodyOf(response)
       IN  IF ~Decodable(body) THEN WCrash
           ELSE IF body = ACK_TEXT
           THEN LET a == HandleAck(packet_list, left_edge, send_next, delays, window, ack_seq)
                IN  /\ WFinishIteration(a.packet_list, a.left_edge, a.send_next, a.delays, a.out)
                    /\ max_ack' = IF max_ack = None \/ ack_seq > max_ack THEN ack_seq ELSE max_ack
                    /\ excW' = excW
           ELSE /\ WFinishIteration(packet_list, left_edge, send_next, delays, << >>)
                /\ UNCHANGED << max_ack, excW >>

\* lines 146-164: one iteration in which recvfrom times out
WTimeoutData ==
    /\ pcW = "data"
    /\ waitedW >= SOCK_TIMEOUT
    /\ rxW' = << "timeout" >>
    /\ WFinishIteration(packet_list, left_edge, send_next, delays, << >>)
    /\ UNCHANGED << contents, window, max_ack, excW >>

\* lines 172-190, blocked in the recvfrom of line 177
WRecvFinalAck(response) ==
    /\ pcW = "final_ack"
    /\ rxW' = << "frame", response >>
    /\ UNCHANGED << contents, window >>
    /\ LET final_seq == total_bytes
           ack_seq == FromBytes(HeaderOf(response))
           ack_msg == BodyOf(response)
       IN  IF ~Decodable(ack_msg) THEN WCrash
           ELSE /\ IF FinalAckMatches(ack_msg, ack_seq, final_seq)
                   THEN pcW' = "fin" /\ sentW' = << >>
                   ELSE pcW' = "final_ack" /\ sentW' = << FinalPacket(final_seq) >>
                /\ waitedW' = 0
                /\ UNCHANGED << packet_list, left_edge, send_next, delays, last_check,
                                excW, txW, max_ack >>

\* lines 189-190 then 174: the timeout sends the terminal frame again
WTimeoutTeardown ==
    /\ pcW \in { "final_ack", "fin" }
    /\ waitedW >= SOCK_TIMEOUT
    /\ rxW' = << "timeout" >>
    /\ pcW' = "final_ack"
    /\ sentW' = << FinalPacket(total_bytes) >>
    /\ waitedW' = 0
    /\ UNCHANGED << contents, window, packet_list, left_edge, send_next, delays,
                    last_check, excW, txW, max_ack >>

\* lines 183-198, blocked in the recvfrom of line 183
WRecvFin(fin_response) ==
    /\ pcW = "fin"
    /\ rxW' = << "frame", fin_response >>
    /\ UNCHANGED << contents, window >>
    /\ LET fin_msg == BodyOf(fin_response)
       IN  IF ~Decodable(fin_msg) THEN WCrash
           ELSE /\ IF fin_msg = FIN_TEXT
                   THEN pcW' = "closed" /\ sentW' = << FINACK >>
                   ELSE pcW' = "final_ack" /\ sentW' = << FinalPacket(total_bytes) >>
                /\ waitedW' = 0
                /\ UNCHANGED << packet_list, left_edge, send_next, delays, last_check,
                                excW, txW, max_ack >>

\* ------------------------------------------------------------ stop and wait
\* lines 143-146: the chunk at current_position and its packet
DataChunk(position) == Chunk(contents, position, MESSAGE_SIZE)
Packet(position) == ToBytes(position) \o DataChunk(position)

InitS ==
    /\ current_position = 0
    /\ packet_count = 0
    /\ all_delays = << >>
    /\ start_time = None
    /\ waitedS = 0
    /\ sentS = << >>
    /\ rxS = << >>
    /\ excS = "none"
    /\ txS = None

\* lines 141-171: the next turn of the loop of send_file, which sends the
\* packet at position, or the terminal frame when the file is through
SNextPacket(position) ==
    IF position < Len(contents)
    THEN /\ pcS' = "data"
         /\ start_time' = 0
         /\ txS' = 0
         /\ sentS' = << Packet(position) >>
    ELSE /\ pcS' = "final_ack"
         /\ start_time' = start_time
         /\ txS' = txS
         /\ sentS' = << FinalPacket(position) >>

AckAcceptedAny(ack_text, ack_seq_num, seq_num, packet_data) == ack_text = ACK_TEXT

\* line 86: the ACK covers the packet that is waited for
AckAccepted(ack_text, ack_seq_num, seq_num, packet_data) ==
    ack_text = ACK_TEXT /\ ack_seq_num >= seq_num + Len(packet_data)

\* lines 119-149
SStart ==
    /\ pcS = "start"
    /\ SNextPacket(current_position)
    /\ waitedS' = 0
    /\ UNCHANGED << contents, current_position, packet_count, all_delays, rxS, excS >>

\* lines 75, 176, 182: decode() raises, nothing catches it
SCrash ==
    /\ pcS' = "crashed"
    /\ excS' = "UnicodeDecodeError"
    /\ sentS' = << >>
    /\ UNCHANGED << current_position, packet_count, all_delays, start_time, waitedS, txS >>

\* lines 56-106 and 149-154, blocked in the recvfrom of line 71
SRecvData(ack_packet) ==
    /\ pcS = "data"
    /\ rxS' = << "frame", ack_packet >>
    /\ UNCHANGED contents
    /\ LET seq_num == current_position
           packet_data == DataChunk(current_position)
           ack_seq_num == FromBytes(HeaderOf(ack_packet))
           ack_text == BodyOf(ack_packet)
       IN  IF ~Decodable(ack_text) THEN SCrash
           ELSE IF AckAccepted(ack_text, ack_seq_num, seq_num, packet_data)
           THEN /\ all_delays' = Append(all_delays, start_time)
                /\ current_position' = current_position + Len(packet_data)
                /\ packet_count' = packet_count + 1
                /\ SNextPacket(current_position + Len(packet_data))
                /\ waitedS' = 0
                /\ excS' = excS
           ELSE /\ sentS' = << Packet(current_position) >>
                /\ waitedS' = 0
                /\ UNCHANGED << pcS, current_position, packet_count, all_delays,
                                start_time, excS, txS >>

\* lines 101-106 then 59: the timeout sends the packet again
STimeoutData ==
    /\ pcS = "data"
    /\ waitedS >= ACK_TIMEOUT
    /\ rxS' = << "timeout" >>
    /\ sentS' = << Packet(current_position) >>
    /\ waitedS' = 0
    /\ UNCHANGED << contents, pcS, current_position, packet_count, all_delays,
                    start_time, excS, txS >>

\* lines 169-191, blocked in the recvfrom of line 174
SRecvFinalAck(ack_packet) ==
    /\ pcS = "final_ack"
    /\ rxS' = << "frame", ack_packet >>
    /\ UNCHANGED contents
    /\ LET final_seq_num == current_position
           ack_seq == FromBytes(HeaderOf(ack_packet))
           ack_msg == BodyOf(ack_packet)
       IN  IF ~Decodable(ack_msg) THEN SCrash
           ELSE /\ IF FinalAckMatches(ack_msg, ack_seq, final_seq_num)
                   THEN pcS' = "fin" /\ sentS' = << >>
                   ELSE pcS' = "final_ack" /\ sentS' = << FinalPacket(final_seq_num) >>
                /\ waitedS' = 0
                /\ UNCHANGED << current_position, packet_count, all_delays, start_time,
                                excS, txS >>

\* lines 190-191 then 171
STimeoutTeardown ==
    /\ pcS \in { "final_ack", "fin" }
    /\ waitedS >= ACK_TIMEOUT
    /\ rxS' = << "timeout" >>
    /\ pcS' = "final_ack"
    /\ sentS' = << FinalPacket(current_position) >>
    /\ waitedS' = 0
    /\ UNCHANGED << contents, current_position, packet_count, all_delays,
                    start_time, excS, txS >>

\* lines 180-207, blocked in the recvfrom of line 180; line 206 divides by
\* len(all_delays)
SRecvFin(fin_packet) ==
    /\ pcS = "fin"
    /\ rxS' = << "frame", fin_packet >>
    /\ UNCHANGED contents
    /\ LET fin_msg == BodyOf(fin_packet)
       IN  IF ~Decodable(fin_msg) THEN SCrash
           ELSE /\ IF fin_msg = FIN_TEXT
                   THEN /\ sentS' = << FINACK >>
                        /\ pcS' = IF Len(all_delays) = 0 THEN "crashed" ELSE "closed"
                        /\ excS' = IF Len(all_delays) = 0 THEN "ZeroDivisionError" ELSE excS
                   ELSE /\ sentS' = << FinalPacket(current_position) >>
                        /\ pcS' = "final_ack"
                        /\ excS' = excS
                /\ waitedS' = 0
                /\ UNCHANGED << current_position, packet_count, all_delays, start_time, txS >>

\* ------------------------------------------------------------ time
Blocked(pc) == pc \in { "data", "final_ack", "fin" }

\* 0.1 s passes while the recvfrom calls are pending; a recvfrom that has
\* waited its timeout returns before more time passes
Tick ==
    /\ Blocked(pcW) \/ Blocked(pcS)
    /\ Blocked(pcW) => waitedW < SOCK_TIMEOUT
    /\ Blocked(pcS) => waitedS < ACK_TIMEOUT
    /\ waitedW' = IF Blocked(pcW) THEN waitedW + 1 ELSE waitedW
    /\ waitedS' = IF Blocked(pcS) THEN waitedS + 1 ELSE waitedS
    /\ packet_list' = [i \in 1..num_packets |->
            IF packet_list[i].is_acked THEN packet_list[i]
            ELSE [packet_list[i] EXCEPT !.first_sent = Older(@), !.recent_sent = Older(@)]]
    /\ txW' = [i \in 1..num_packets |->
            IF packet_list[i].is_acked THEN txW[i]
            ELSE [first |-> Older(txW[i].first), last |-> Older(txW[i].last)]]
    /\ last_check' = IF pcW = "data" THEN Older(last_check) ELSE last_check
    /\ start_time' = IF pcS = "data" THEN Older(start_time) ELSE start_time
    /\ txS' = IF pcS = "data" THEN Older(txS) ELSE txS
    /\ sentW' = << >>
    /\ sentS' = << >>
    /\ rxW' = << >>
    /\ rxS' = << >>
    /\ UNCHANGED << contents, window, pcW, left_edge, send_next, delays, excW, max_ack,
                    pcS, current_position, packet_count, all_delays, excS >>

\* ------------------------------------------------------------ specifications
\* one of the two scripts is run on a file of 0..MaxBytes bytes
NoNet ==
    /\ toPeer = { }
    /\ toSender = { }
    /\ expected = 0

\* the file is already cut into packets
NoSeg ==
    /\ pcSeg = "off"
    /\ chunk = DATA_SIZE
    /\ seg_position = 0
    /\ segments = << >>

Init ==
    /\ contents \in { FileOf(n) : n \in 0..MaxBytes }
    /\ InitW(WINDOW)
    /\ InitS
    /\ NoNet
    /\ NoSeg
    /\ \/ pcW = "start" /\ pcS = "idle"
       \/ pcW = "idle" /\ pcS = "start"

NextW ==
    \/ WStart /\ UNCHANGED << varsS, varsNet, varsSeg >>
    \/ \E response \in Frames : WRecvData(response) /\ UNCHANGED << varsS, varsNet, varsSeg >>
    \/ WTimeoutData /\ UNCHANGED << varsS, varsNet, varsSeg >>
    \/ \E response \in Frames : WRecvFinalAck(response) /\ UNCHANGED << varsS, varsNet, varsSeg >>
    \/ \E response \in Frames : WRecvFin(response) /\ UNCHANGED << varsS, varsNet, varsSeg >>
    \/ WTimeoutTeardown /\ UNCHANGED << varsS, varsNet, varsSeg >>

NextS ==
    \/ SStart /\ UNCHANGED << varsW, varsNet, varsSeg >>
    \/ \E response \in Frames : SRecvData(response) /\ UNCHANGED << varsW, varsNet, varsSeg >>
    \/ STimeoutData /\ UNCHANGED << varsW, varsNet, varsSeg >>
    \/ \E response \in Frames : SRecvFinalAck(response) /\ UNCHANGED << varsW, varsNet, varsSeg >>
    \/ \E response \in Frames : SRecvFin(response) /\ UNCHANGED << varsW, varsNet, varsSeg >>
    \/ STimeoutTeardown /\ UNCHANGED << varsW, varsNet, varsSeg >>

Next == NextW \/ NextS \/ (Tick /\ UNCHANGED << varsNet, varsSeg >>)

Spec == Init /\ [][Next]_vars

\* ------------------------------------------------------------ both senders
\* The two senders side by side on the same file, the window engine with a
\* window of one packet: every arriving frame is handed to both, the clock is
\* shared, and each has its own receive timeout.
WRecv(response) ==
    WRecvData(response) \/ WRecvFinalAck(response) \/ WRecvFin(response)
SRecv(response) ==
    SRecvData(response) \/ SRecvFinalAck(response) \/ SRecvFin(response)

InitPair ==
    /\ contents \in { FileOf(n) : n \in 0..MaxPairBytes }
    /\ InitW(1)
    /\ InitS
    /\ NoNet
    /\ NoSeg
    /\ pcW = "start" /\ pcS = "start"

PairStart == WStart /\ SStart

PairRecv(response) ==
    /\ Blocked(pcW) \/ Blocked(pcS)
    /\ IF Blocked(pcW) THEN WRecv(response) ELSE UNCHANGED << contents, varsW >>
    /\ IF Blocked(pcS) THEN SRecv(response) ELSE UNCHANGED << contents, varsS >>

NextPair ==
    \/ PairStart /\ UNCHANGED << varsNet, varsSeg >>
    \/ \E response \in Frames : PairRecv(response) /\ UNCHANGED << varsNet, varsSeg >>
    \/ WTimeoutData /\ UNCHANGED << varsS, varsNet, varsSeg >>
    \/ WTimeoutTeardown /\ UNCHANGED << varsS, varsNet, varsSeg >>
    \/ STimeoutData /\ UNCHANGED << varsW, varsNet, varsSeg >>
    \/ STimeoutTeardown /\ UNCHANGED << varsW, varsNet, varsSeg >>
    \/ Tick /\ UNCHANGED << varsNet, varsSeg >>

SpecPair == InitPair /\ [][NextPair]_vars

\* ------------------------------------------------------------ session
\* The sliding-window sender in a session with the receiver of sections 4.3
\* and 6 of the specification, over a channel that loses, duplicates and
\* reorders frames.
RECURSIVE FramesOf(_)
FramesOf(out) == IF out = << >> THEN { } ELSE { Head(out) } \cup FramesOf(Tail(out))

\* the receiver: it takes data in order, answers every frame with the ACK of
\* its next expected byte, and answers the terminal frame at that byte with
\* the ACK and a FIN
PeerNextExpected(frame) ==
    IF Len(BodyOf(frame)) > 0 /\ BodyOf(frame) # FINACK_TEXT
       /\ FromBytes(HeaderOf(frame)) = expected
    THEN expected + Len(BodyOf(frame))
    ELSE expected

PeerReplies(frame) ==
    IF BodyOf(frame) = FINACK_TEXT THEN { }
    ELSE IF Len(BodyOf(frame)) = 0 /\ FromBytes(HeaderOf(frame)) = expected
    THEN { AckFrame(expected), FinFrame(expected) }
    ELSE { AckFrame(PeerNextExpected(frame)) }

\* a frame stays in flight when it is delivered and duplicated
AfterDelivery(inflight, frame) == { inflight, inflight \ { frame } }

InitLive ==
    /\ contents \in { FileOf(n) : n \in 0..MaxLiveBytes }
    /\ InitW(WINDOW)
    /\ InitS
    /\ NoNet
    /\ NoSeg
    /\ pcW = "start" /\ pcS = "idle"

LiveStart ==
    /\ WStart
    /\ toPeer' = toPeer \cup FramesOf(sentW')
    /\ UNCHANGED << varsS, toSender, expected, varsSeg >>

LiveRecv(response) ==
    /\ response \in toSender
    /\ WRecv(response)
    /\ toSender' \in AfterDelivery(toSender, response)
    /\ toPeer' = toPeer \cup FramesOf(sentW')
    /\ UNCHANGED << varsS, expected, varsSeg >>

LiveTimeout ==
    /\ WTimeoutData \/ WTimeoutTeardown
    /\ toPeer' = toPeer \cup FramesOf(sentW')
    /\ UNCHANGED << varsS, toSender, expected, varsSeg >>

PeerRecv(frame) ==
    /\ frame \in toPeer
    /\ toPeer' \in AfterDelivery(toPeer, frame)
    /\ expected' = PeerNextExpected(frame)
    /\ toSender' = toSender \cup PeerReplies(frame)
    /\ UNCHANGED << contents, varsW, varsS, varsSeg >>

Lose ==
    /\ \/ \E frame \in toPeer : toPeer' = toPeer \ { frame } /\ toSender' = toSender
       \/ \E frame \in toSender : toSender' = toSender \ { frame } /\ toPeer' = toPeer
    /\ UNCHANGED << contents, varsW, varsS, expected, varsSeg >>

\* every frame the two sides can put in flight
SenderFrames ==
    { ToBytes(p) \o SubSeq(FileOf(n), p + 1, Min(p + DATA_SIZE, n)) :
        p \in 0..MaxLiveBytes, n \in 0..MaxLiveBytes }
    \cup { FINACK }
PeerFrames ==
    { AckFrame(a) : a \in 0..MaxLiveBytes } \cup { FinFrame(a) : a \in 0..MaxLiveBytes }

NextLive ==
    \/ LiveStart
    \/ \E response \in PeerFrames : LiveRecv(response)
    \/ LiveTimeout
    \/ \E frame \in SenderFrames : PeerRecv(frame)
    \/ Lose
    \/ Tick /\ UNCHANGED << varsNet, varsSeg >>

\* the sender loop keeps running, time keeps passing, and a frame that is in
\* flight again and again is delivered
FairLive ==
    /\ WF_vars(LiveStart)
    /\ WF_vars(LiveTimeout)
    /\ WF_vars(Tick /\ UNCHANGED << varsNet, varsSeg >>)
    /\ \A response \in PeerFrames : SF_vars(LiveRecv(response))
    /\ \A frame \in SenderFrames : SF_vars(PeerRecv(frame))

SpecLive == InitLive /\ [][NextLive]_vars /\ FairLive

\* ------------------------------------------------------------ segmentation
\* The two loops that cut the file into packets, run turn by turn on files of
\* 0..MaxSegBytes bytes with chunk sizes 1..MaxChunk: the loop of lines 48-66
\* of transmit_file, and the loop of lines 141-154 of send_file with
\* send_one_packet returning at once.
InitSeg ==
    /\ contents \in { FileOf(n) : n \in 0..MaxSegBytes }
    /\ chunk \in 1..MaxChunk
    /\ pcSeg \in { "W", "S" }
    /\ seg_position = 0
    /\ segments = << >>
    /\ window = WINDOW
    /\ packet_list = << >>
    /\ left_edge = 0
    /\ send_next = 0
    /\ delays = << >>
    /\ last_check = None
    /\ waitedW = 0
    /\ sentW = << >>
    /\ rxW = << >>
    /\ excW = "none"
    /\ txW = << >>
    /\ max_ack = None
    /\ InitS
    /\ NoNet
    /\ pcW = "idle" /\ pcS = "idle"

\* lines 48-66: one turn of the loop of transmit_file
SegmentW ==
    /\ pcSeg = "W"
    /\ seg_position < total_bytes
    /\ LET data == Chunk(contents, seg_position, chunk)
           sequence == seg_position
       IN  /\ packet_list' = Append(packet_list,
                                    [sequence |-> sequence,
                                     raw |-> ToBytes(sequence) \o data,
                                     length |-> Len(data),
                                     is_acked |-> FALSE,
                                     first_sent |-> None,
                                     recent_sent |-> None])
           /\ seg_position' = seg_position + Len(data)
    /\ UNCHANGED << contents, window, pcW, left_edge, send_next, delays, last_check,
                    waitedW, sentW, rxW, excW, txW, max_ack, varsS, varsNet,
                    pcSeg, chunk, segments >>

\* lines 141-154: one turn of the loop of send_file
SegmentS ==
    /\ pcSeg = "S"
    /\ current_position < total_bytes
    /\ LET data_chunk == Chunk(contents, current_position, chunk)
           seq_number == current_position
       IN  /\ segments' = Append(segments,
                                 [seq_number |-> seq_number, data_chunk |-> data_chunk])
           /\ all_delays' = Append(all_delays, 0)
           /\ current_position' = current_position + Len(data_chunk)
           /\ packet_count' = packet_count + 1
    /\ UNCHANGED << contents, varsW, pcS, start_time, waitedS, sentS, rxS, excS, txS,
                    varsNet, pcSeg, chunk, seg_position >>

NextSeg == SegmentW \/ SegmentS

SpecSeg == InitSeg /\ [][NextSeg]_vars

\* ------------------------------------------------------------ retransmission
\* The sliding-window sender on its own, with any well-formed frame arriving
\* at any time or none at all; its loop keeps running and time keeps passing.
WellFormed == { response \in Frames : Decodable(BodyOf(response)) }

InitRetry ==
    /\ contents \in { FileOf(n) : n \in 0..MaxRetryBytes }
    /\ InitW(WINDOW)
    /\ InitS
    /\ NoNet
    /\ NoSeg
    /\ pcW = "start" /\ pcS = "idle"

RetryStart == WStart /\ UNCHANGED << varsS, varsNet, varsSeg >>
RetryRecv(response) == WRecv(response) /\ UNCHANGED << varsS, varsNet, varsSeg >>
RetryTimeout ==
    (WTimeoutData \/ WTimeoutTeardown) /\ UNCHANGED << varsS, varsNet, varsSeg >>
RetryTick == Tick /\ UNCHANGED << varsNet, varsSeg >>

NextRetry ==
    \/ RetryStart
    \/ \E response \in WellFormed : RetryRecv(response)
    \/ RetryTimeout
    \/ RetryTick

FairRetry == WF_vars(RetryStart) /\ WF_vars(RetryTimeout) /\ WF_vars(RetryTick)

SpecRetry == InitRetry /\ [][NextRetry]_vars /\ FairRetry

\* ------------------------------------------------------------ properties
Packets == 1..num_packets
EndOffset(i) == packet_list[i].sequence + packet_list[i].length
IsFrame(rx, frame) == rx = << "frame", frame >>
Retransmitted(i) == txW[i].first # None /\ txW[i].last # None /\ txW[i].last < txW[i].first

\* C1: the packets transmitted at least once and not yet acknowledged are at
\* most `window` many, in every reachable state.
Outstanding == { i \in Packets : txW[i].first # None /\ ~packet_list[i].is_acked }
C1_WindowBound == Cardinality(Outstanding) <= window
\* the window is full again after it has moved
C1_Witness == Cardinality(Outstanding) = window /\ left_edge > 0 /\ pcW = "data"

\* C2: the acknowledged packets are exactly those whose end offset is at most
\* the largest ACK offset handled so far; no flag goes back to false and
\* left_edge never decreases.
C2_AckedIsBelowMaxAck ==
    \A i \in Packets :
        packet_list[i].is_acked <=> (max_ack # None /\ EndOffset(i) <= max_ack)
C2_Monotonic ==
    /\ \A i \in Packets : packet_list[i].is_acked => packet_list'[i].is_acked
    /\ left_edge' >= left_edge
C2_CumulativeAck == [] C2_AckedIsBelowMaxAck /\ [][C2_Monotonic]_vars
\* an ACK below the largest one arrives with part of the file acknowledged
C2_Witness ==
    /\ pcW = "data" /\ left_edge > 0
    /\ \E a \in AckSeqs : IsFrame(rxW, AckFrame(a)) /\ a < max_ack

\* C3: with the receiver above, a channel that delivers every frame that is
\* in flight again and again, and a sender loop that keeps running, every
\* packet is eventually acknowledged and the session eventually sends FINACK
\* and is closed.
C3_EventuallyClosed == <>(AllAcked(packet_list) /\ pcW = "closed")

\* C4: a step never transmits a packet whose acknowledged flag is set, whether
\* the flag was set in that step or before it.
C4_Step == \A i \in Packets : packet_list'[i].is_acked => ~IsSent(sentW', packet_list[i].raw)
C4_NoResendOfAcked == [][C4_Step]_vars
\* a resend goes out while the packet before it is acknowledged
C4_Witness ==
    \E i \in Packets :
        /\ IsSent(sentW, packet_list[i].raw) /\ Retransmitted(i)
        /\ \E j \in Packets : packet_list[j].is_acked

\* C5: first_sent (start_time) is the time of the first transmission, however
\* often the packet was sent again, and the delay sample recorded at the
\* acknowledgment is the time since that first transmission.
C5_FirstSentIsFirst ==
    /\ \A i \in Packets : packet_list[i].first_sent = txW[i].first
    /\ start_time = txS
RECURSIVE C5_Samples(_)
C5_Samples(i) ==
    IF i > num_packets THEN << >>
    ELSE (IF packet_list'[i].is_acked /\ ~packet_list[i].is_acked /\ txW[i].first # None
          THEN << txW[i].first >> ELSE << >>) \o C5_Samples(i + 1)
C5_Step ==
    /\ delays' = delays \o C5_Samples(1)
    /\ \A i \in Packets :
           packet_list[i].first_sent # None
               => packet_list'[i].first_sent = packet_list[i].first_sent
                  \/ (packet_list'[i].first_sent = Older(packet_list[i].first_sent)
                      /\ sentW' = << >>)
    /\ \/ all_delays' = all_delays
       \/ all_delays' = Append(all_delays, txS) /\ current_position' > current_position
    /\ current_position' > current_position => Len(all_delays') = Len(all_delays) + 1
C5_DelayFromFirstSend == [] C5_FirstSentIsFirst /\ [][C5_Step]_vars
\* a packet sent again after a timeout is acknowledged, and its sample is the
\* time since the first transmission
C5_Witness ==
    \E i \in Packets :
        /\ packet_list[i].is_acked /\ Retransmitted(i)
        /\ delays # << >> /\ delays[Len(delays)] = txW[i].first

\* C6: the handling of an ACK whose offset is at most the largest handled so
\* far (every offset received before is one) sends nothing, records no delay
\* sample and changes no packet and no cursor; the iteration that receives it
\* does what the timer sweep alone does; and there are never more delay
\* samples than acknowledged packets.
C6_Unchanged ==
    [packet_list |-> packet_list, left_edge |-> left_edge, send_next |-> send_next,
     delays |-> delays, out |-> << >>]
C6_HandlingIsNoOp ==
    pcW = "data" =>
        \A a \in AckSeqs :
            (max_ack # None /\ a <= max_ack)
                => HandleAck(packet_list, left_edge, send_next, delays, window, a) = C6_Unchanged
C6_OneSampleEach ==
    Len(delays) <= Cardinality({ i \in Packets : packet_list[i].is_acked })
C6_Step ==
    \A a \in AckSeqs :
        (pcW = "data" /\ max_ack # None /\ a <= max_ack /\ rxW' = << "frame", AckFrame(a) >>)
            => /\ delays' = delays
               /\ left_edge' = left_edge
               /\ send_next' = send_next
               /\ packet_list' = Sweep(packet_list, left_edge, window, last_check).packet_list
               /\ sentW' = Sweep(packet_list, left_edge, window, last_check).out
C6_DuplicateAckIdempotent ==
    [] (C6_HandlingIsNoOp /\ C6_OneSampleEach) /\ [][C6_Step]_vars
\* ACK 2 arrives again: the third packet, which only an ACK of 2 or more lets
\* into the window, went out at an earlier time, and 2 is the largest so far
C6_Witness ==
    /\ pcW = "data" /\ num_packets >= 3
    /\ IsFrame(rxW, AckFrame(2)) /\ max_ack = 2
    /\ txW[3].first # None /\ txW[3].first > 0
    /\ Len(delays) = 1

\* C7: a packet that was transmitted before is transmitted again only when
\* more than RETRANSMIT_TIME has passed since its last transmission, and no
\* step transmits a frame twice.
C7_Step ==
    /\ \A i \in Packets :
           (IsSent(sentW', packet_list[i].raw) /\ txW[i].last # None)
               => txW[i].last > RETRANSMIT_TIME
    /\ \A k1, k2 \in 1..Len(sentW') : sentW'[k1] = sentW'[k2] => k1 = k2
C7_ResendSpacing == [][C7_Step]_vars
\* a sweep has just sent a packet for the second time, with an ACK handled before
C7_Witness ==
    \E i \in Packets :
        /\ IsSent(sentW, packet_list[i].raw) /\ Retransmitted(i) /\ txW[i].last = 0
        /\ max_ack # None

\* C8: FINACK is sent in the step that receives a FIN while the sender waits
\* for it, which it does only right after an ACK echoing exactly the payload
\* length; a FIN received in any other place sends no FINACK; and once FINACK
\* is sent the sender takes no further step.
C8_IsFin(rx) == Len(rx) = 2 /\ rx[1] = "frame" /\ BodyOf(rx[2]) = FIN_TEXT
C8_Step ==
    /\ (pcW' = "fin" /\ pcW # "fin") => IsFrame(rxW', AckFrame(total_bytes))
    /\ (pcS' = "fin" /\ pcS # "fin") => IsFrame(rxS', AckFrame(total_bytes))
    /\ IsSent(sentW', FINACK) <=> (pcW = "fin" /\ C8_IsFin(rxW'))
    /\ IsSent(sentS', FINACK) <=> (pcS = "fin" /\ C8_IsFin(rxS'))
    /\ ~IsSent(sentW, FINACK) /\ ~IsSent(sentS, FINACK)
C8_FinackOnce == [][C8_Step]_vars
\* the sliding-window session has sent its FINACK
C8_Witness == pcW = "closed" /\ sentW = << FINACK >> /\ num_packets >= 3

\* C9: stop and wait behaves as the window engine with a window of one: when
\* both have handled the same frame in their data loops, they have
\* transmitted the same data frames in that step, and the number of packets
\* stop and wait has had acknowledged is the left_edge of the window engine.
C9_StopAndWaitIsWindowOne ==
    (pcW = "data" /\ pcS = "data" /\ Len(rxW) = 2 /\ rxW = rxS)
        => (sentS = sentW /\ packet_count = left_edge)

\* C10: a malformed frame (undecodable body, or shorter than the header) is
\* discarded: the session does not crash on it.
C10_IsMalformed(rx) == Len(rx) = 2 /\ rx[1] = "frame" /\ rx[2] \in Malformed
C10_MalformedDiscarded ==
    /\ C10_IsMalformed(rxW) => pcW # "crashed"
    /\ C10_IsMalformed(rxS) => pcS # "crashed"

\* C11: with an empty file the packet table is empty, neither sender is ever
\* in its data loop or sends a data frame, and the run ends without an error
\* from the missing delay samples.
C11_IsData(frame) == Len(BodyOf(frame)) > 0 /\ frame # FINACK
C11_EmptyPayload ==
    total_bytes = 0 =>
        /\ packet_list = << >>
        /\ pcW # "data" /\ pcS # "data"
        /\ \A k \in 1..Len(sentW) : ~C11_IsData(sentW[k])
        /\ \A k \in 1..Len(sentS) : ~C11_IsData(sentS[k])
        /\ excW # "ZeroDivisionError" /\ excS # "ZeroDivisionError"

\* C12: stop and wait sends one frame per step, a data frame is always the
\* packet at current_position, current_position moves only to the end of the
\* current packet and only in a step that receives an ACK of at least that
\* offset, and the terminal frame goes out only when current_position is the
\* end of the file.
C12_Step ==
    /\ Len(sentS') <= 1
    /\ \A k \in 1..Len(sentS') :
           C11_IsData(sentS'[k])
               => /\ current_position' < total_bytes
                  /\ sentS'[k] = ToBytes(current_position')
                                    \o SubSeq(contents, current_position' + 1,
                                              Min(current_position' + MESSAGE_SIZE, total_bytes))
    /\ current_position' # current_position
           => /\ current_position' = current_position + Len(DataChunk(current_position))
              /\ \E a \in AckSeqs : a >= current_position' /\ IsFrame(rxS', AckFrame(a))
    /\ \A k \in 1..Len(sentS') : BodyOf(sentS'[k]) = << >> => current_position' = total_bytes
C12_InOrderOneAtATime == [][C12_Step]_vars
\* the third packet has just gone out for the first time, after an ACK
C12_Witness ==
    /\ pcS = "data" /\ packet_count = 2 /\ txS = 0
    /\ sentS = << Packet(current_position) >>
    /\ \E a \in AckSeqs : IsFrame(rxS, AckFrame(a))

\* C14: a sender that waits for the FIN keeps waiting for it until it closes,
\* whatever it receives and also when its receive times out.
C14_Step ==
    /\ (pcW = "fin" /\ pcW' # "crashed") => pcW' \in { "fin", "closed" }
    /\ (pcS = "fin" /\ pcS' # "crashed") => pcS' \in { "fin", "closed" }
C14_StaysAwaitingFin == [][C14_Step]_vars

\* C15: stop and wait sends the current packet again only in a step whose
\* receive timed out; a step that receives a frame which does not move
\* current_position sends nothing and changes nothing.
C15_Step ==
    (pcS = "data" /\ pcS' = "data" /\ current_position' = current_position)
        => /\ sentS' # << >> => rxS' = << "timeout" >>
           /\ Len(rxS') = 2
                  => UNCHANGED << packet_count, all_delays, start_time, txS >>
C15_ResendOnlyOnTimeout == [][C15_Step]_vars

\* C16: every acknowledged packet has first_sent set, and recent_sent is never
\* before first_sent (its age is never the larger one).
C16_Timestamps ==
    \A i \in Packets :
        /\ packet_list[i].is_acked => packet_list[i].first_sent # None
        /\ (packet_list[i].first_sent # None /\ packet_list[i].recent_sent # None)
               => packet_list[i].recent_sent <= packet_list[i].first_sent

\* C17: the acknowledged packets are exactly those below left_edge, so all are
\* acknowledged exactly when left_edge is the table length; the data loop runs
\* only below that, teardown only at it, and the step of the data phase that
\* sends the terminal frame is the one that brings left_edge to the table
\* length.
C17_Prefix == \A i \in Packets : packet_list[i].is_acked <=> i <= left_edge
C17_Inv ==
    /\ C17_Prefix
    /\ AllAcked(packet_list) <=> left_edge = num_packets
    /\ pcW = "data" => left_edge < num_packets
    /\ pcW \in { "final_ack", "fin", "closed" } => left_edge = num_packets
    /\ IsSent(sentW, FinalPacket(total_bytes)) => AllAcked(packet_list)
C17_Step ==
    pcW \in { "start", "data" }
        => (IsSent(sentW', FinalPacket(total_bytes)) <=> left_edge' = num_packets)
C17_ExitAtTableLength == [] C17_Inv /\ [][C17_Step]_vars
\* the ACK of the whole file has ended the data phase of a three-packet file
C17_Witness ==
    /\ pcW = "final_ack" /\ num_packets >= 3 /\ left_edge = num_packets
    /\ IsFrame(rxW, AckFrame(total_bytes))
    /\ sentW = << FinalPacket(total_bytes) >>

\* C18: the initial burst sends exactly the first min(window, table length)
\* packets; from then on send_next is min(left_edge + window, table length),
\* it never decreases, and every packet of the window that is not
\* acknowledged has been transmitted.
C18_Inv ==
    pcW \notin { "idle", "start" }
        => /\ send_next = Min(left_edge + window, num_packets)
           /\ left_edge <= send_next /\ send_next <= num_packets
           /\ \A i \in Packets :
                  (~packet_list[i].is_acked /\ i > left_edge /\ i <= left_edge + window)
                      => txW[i].first # None /\ packet_list[i].recent_sent # None
C18_Step ==
    /\ send_next' >= send_next
    /\ pcW = "start"
           => \A i \in Packets :
                  IsSent(sentW', packet_list[i].raw) <=> i <= Min(window, num_packets)
C18_SendCursor == [] C18_Inv /\ [][C18_Step]_vars
\* the window has moved by two packets at once and the cursor with it
C18_Witness ==
    /\ pcW = "data" /\ left_edge = 2 /\ send_next = 3 /\ num_packets = 3
    /\ IsFrame(rxW, AckFrame(4)) /\ Len(sentW) = 1

\* C19: the handling of an ACK whose offset is below the end offset of every
\* packet not yet acknowledged changes no packet, no cursor and no delay
\* sample and sends nothing; the iteration that receives it does what the
\* timer sweep alone does.
C19_Below(a) == \A i \in Packets : ~packet_list[i].is_acked => a < EndOffset(i)
C19_HandlingIsNoOp ==
    pcW = "data" =>
        \A a \in AckSeqs :
            C19_Below(a)
                => HandleAck(packet_list, left_edge, send_next, delays, window, a)
                     = [packet_list |-> packet_list, left_edge |-> left_edge,
                        send_next |-> send_next, delays |-> delays, out |-> << >>]
C19_Step ==
    \A a \in AckSeqs :
        (pcW = "data" /\ C19_Below(a) /\ rxW' = << "frame", AckFrame(a) >>)
            => /\ delays' = delays
               /\ left_edge' = left_edge
               /\ send_next' = send_next
               /\ \A i \in Packets : packet_list'[i].is_acked = packet_list[i].is_acked
               /\ \A i \in Packets : packet_list'[i].first_sent = packet_list[i].first_sent
               /\ packet_list' = Sweep(packet_list, left_edge, window, last_check).packet_list
               /\ sentW' = Sweep(packet_list, left_edge, window, last_check).out
C19_StaleAckNoEffect == [] C19_HandlingIsNoOp /\ [][C19_Step]_vars
\* ACK 3, an offset inside the second packet and above every ACK before it,
\* arrives while the second packet is the oldest one not acknowledged
C19_Witness ==
    /\ pcW = "data" /\ left_edge = 1 /\ max_ack = 3
    /\ IsFrame(rxW, AckFrame(3))

\* C13: in both senders the segments cut so far start at offset 0, follow one
\* another without gap, each carry 1..chunk bytes, and their payloads in
\* order are the file up to the position of the loop; when the loop ends
\* that is the whole file, so the lengths sum to its length and there is no
\* empty segment at the end.  With the chunk sizes DATA_SIZE and MESSAGE_SIZE
\* the loops produce the packets BuildPackets and DataChunk give.
C13_OfW ==
    [i \in 1..Len(packet_list) |->
        [offset |-> packet_list[i].sequence,
         length |-> packet_list[i].length,
         payload |-> BodyOf(packet_list[i].raw),
         header |-> FromBytes(HeaderOf(packet_list[i].raw))]]
C13_OfS ==
    [i \in 1..Len(segments) |->
        [offset |-> segments[i].seq_number,
         length |-> Len(segments[i].data_chunk),
         payload |-> segments[i].data_chunk,
         header |-> segments[i].seq_number]]
RECURSIVE C13_Concat(_)
C13_Concat(t) == IF t = << >> THEN << >> ELSE Head(t).payload \o C13_Concat(Tail(t))
RECURSIVE C13_Sum(_)
C13_Sum(t) == IF t = << >> THEN 0 ELSE Head(t).length + C13_Sum(Tail(t))
C13_WellFormed(t, position) ==
    /\ \A i \in 1..Len(t) :
           /\ t[i].offset = (IF i = 1 THEN 0 ELSE t[i - 1].offset + t[i - 1].length)
           /\ i > 1 => t[i].offset > t[i - 1].offset
           /\ t[i].length \in 1..chunk
           /\ t[i].length = Len(t[i].payload)
           /\ t[i].header = t[i].offset
    /\ C13_Sum(t) = position
    /\ position <= total_bytes
    /\ C13_Concat(t) = SubSeq(contents, 1, position)
    /\ position >= total_bytes
           => /\ C13_Concat(t) = contents
              /\ C13_Sum(t) = total_bytes
              /\ Len(t) = (total_bytes + chunk - 1) \div chunk
C13_Segmentation ==
    /\ pcSeg = "W"
           => /\ C13_WellFormed(C13_OfW, seg_position)
              /\ (seg_position >= total_bytes /\ chunk = DATA_SIZE)
                     => packet_list = BuildPackets(contents, 0)
    /\ pcSeg = "S"
           => /\ C13_WellFormed(C13_OfS, current_position)
              /\ chunk = MESSAGE_SIZE
                     => \A i \in 1..Len(segments) :
                            segments[i].data_chunk = DataChunk(segments[i].seq_number)
\* a file of exactly two chunks has been cut into two packets
C13_Witness ==
    /\ pcSeg = "W" /\ seg_position = total_bytes /\ chunk = 3
    /\ total_bytes = 6 /\ Len(packet_list) = 2

\* C20: a packet of the window that stays unacknowledged is transmitted again
\* and again, for ever, whatever frames arrive in between; and the sender is
\* in teardown only with every packet acknowledged.
C20_Served(i) ==
    \/ i \notin Packets
    \/ packet_list[i].is_acked
    \/ i > left_edge + window
    \/ IsSent(sentW, packet_list[i].raw) /\ Retransmitted(i)
C20_InDataPhase == pcW \in { "final_ack", "fin", "closed" } => AllAcked(packet_list)
C20_RetriesForever ==
    /\ \A i \in 1..MaxRetryBytes : []<>C20_Served(i)
    /\ []C20_InDataPhase
\* the second packet is sent again, long after its first transmission, in a
\* step that handles an ACK which does not cover it
C20_Witness ==
    /\ pcW = "data" /\ left_edge = 1 /\ num_packets >= 3
    /\ \E a \in AckSeqs : IsFrame(rxW, AckFrame(a))
    /\ IsSent(sentW, packet_list[2].raw) /\ txW[2].first = MaxAge /\ txW[2].last = 0

====
